---- MODULE Spec2Model ----
(***************************************************************************)
(* The command dispatch layer of src/src/utils/request.ts: request(cmd,    *)
(* args) either forwards to the native invoke primitive or builds and      *)
(* issues an HTTP request from COMMAND_MAPPING and normalises the answer.  *)
(*                                                                         *)
(* JavaScript strings are TLA+ strings, read as sequences of characters    *)
(* (Len, \o and SubSeq act on them), so includes/replace and the           *)
(* percent-encoders are computed character by character.                   *)
(***************************************************************************)
EXTENDS Integers, Sequences, FiniteSets, TLC

(***************************************************************************)
(* JavaScript strings                                                      *)
(***************************************************************************)
CharAt(s, i) == SubSeq(s, i, i)

Chars(s) == {CharAt(s, i) : i \in 1..Len(s)}

\* s.startsWith(t, i-1)
StartsAt(s, i, t) == /\ i >= 1
                     /\ i + Len(t) - 1 <= Len(s)
                     /\ SubSeq(s, i, i + Len(t) - 1) = t

\* the first position from i on where t occurs in s (0 when there is none)
RECURSIVE IndexFrom(_, _, _)
IndexFrom(s, t, i) ==
    IF i + Len(t) - 1 > Len(s) THEN 0
    ELSE IF SubSeq(s, i, i + Len(t) - 1) = t THEN i
    ELSE IndexFrom(s, t, i + 1)

\* String.prototype.indexOf, 1-based (0 when absent)
IndexOf(s, t) == IndexFrom(s, t, 1)

\* String.prototype.includes: the empty string is included in every string
Includes(s, t) == IndexOf(s, t) # 0

\* String.prototype.replace with a string pattern: the first occurrence only.
\* The replacements used here are encodeURIComponent outputs, which never
\* hold "$", so no replacement pattern ($&, $1, ...) is ever expanded.
Replace(s, t, r) ==
    LET i == IndexOf(s, t)
    IN  IF i = 0 THEN s
        ELSE SubSeq(s, 1, i - 1) \o r \o SubSeq(s, i + Len(t), Len(s))

Alnum == Chars("abcdefghijklmnopqrstuvwxyzABCDEFGHIJKLMNOPQRSTUVWXYZ0123456789")

Digit == Chars("0123456789")

\* the %XX escape of an ASCII character that an encoder does not keep
\* (printable ASCII punctuation, the grave accent left out)
PercentCode(c) ==
    CASE c = " "  -> "%20" [] c = "!"  -> "%21" [] c = "\"" -> "%22"
      [] c = "#"  -> "%23" [] c = "$"  -> "%24" [] c = "%"  -> "%25"
      [] c = "&"  -> "%26" [] c = "'"  -> "%27" [] c = "("  -> "%28"
      [] c = ")"  -> "%29" [] c = "*"  -> "%2A" [] c = "+"  -> "%2B"
      [] c = ","  -> "%2C" [] c = "/"  -> "%2F" [] c = ":"  -> "%3A"
      [] c = ";"  -> "%3B" [] c = "<"  -> "%3C" [] c = "="  -> "%3D"
      [] c = ">"  -> "%3E" [] c = "?"  -> "%3F" [] c = "@"  -> "%40"
      [] c = "["  -> "%5B" [] c = "\\" -> "%5C" [] c = "]"  -> "%5D"
      [] c = "^"  -> "%5E" [] c = "{"  -> "%7B" [] c = "|"  -> "%7C"
      [] c = "}"  -> "%7D" [] c = "~"  -> "%7E"

\* characters encodeURIComponent leaves alone
UriUnreserved == Alnum \cup {"-", "_", ".", "!", "~", "*", "'", "(", ")"}

\* characters the application/x-www-form-urlencoded serializer leaves alone
FormUnreserved == Alnum \cup {"*", "-", ".", "_"}

\* a substitution that forgets to percent-encode
EncodeNothing(s) == s

RECURSIVE EncodeFrom(_, _)
EncodeFrom(s, i) ==
    IF i > Len(s) THEN ""
    ELSE (IF CharAt(s, i) \in UriUnreserved THEN CharAt(s, i)
          ELSE PercentCode(CharAt(s, i))) \o EncodeFrom(s, i + 1)

encodeURIComponent(s) == EncodeFrom(s, 1)

RECURSIVE FormEncodeFrom(_, _)
FormEncodeFrom(s, i) ==
    IF i > Len(s) THEN ""
    ELSE (IF CharAt(s, i) \in FormUnreserved THEN CharAt(s, i)
          ELSE IF CharAt(s, i) = " " THEN "+"
          ELSE PercentCode(CharAt(s, i))) \o FormEncodeFrom(s, i + 1)

\* the percent-encoding URLSearchParams.toString applies to a name or value
FormEncode(s) == FormEncodeFrom(s, 1)

(***************************************************************************)
(* JavaScript values: strings, null, undefined, plain objects (an ordered  *)
(* list of own properties), and the Error objects that are thrown.         *)
(***************************************************************************)
Str(s) == [t |-> "string", s |-> s, o |-> <<>>]

Num(s) == [t |-> "number", s |-> s, o |-> <<>>]

Bool(s) == [t |-> "boolean", s |-> s, o |-> <<>>]

Null == [t |-> "null", s |-> "", o |-> <<>>]

Undefined == [t |-> "undefined", s |-> "", o |-> <<>>]

\* a plain object; kv is the list of its own properties in key order
Obj(kv) == [t |-> "object", s |-> "", o |-> kv]

Prop(k, v) == [k |-> k, v |-> v]

\* an Error instance: its constructor name and its message
Err(name, msg) == [t |-> name, s |-> msg, o |-> <<>>]

\* ToBoolean
Truthy(v) ==
    CASE v.t = "string"    -> v.s # ""
      [] v.t = "number"    -> v.s # "0"
      [] v.t = "boolean"   -> v.s = "true"
      [] v.t = "null"      -> FALSE
      [] v.t = "undefined" -> FALSE
      [] OTHER             -> TRUE

\* String(value)
String(v) ==
    CASE v.t = "string"    -> v.s
      [] v.t = "number"    -> v.s
      [] v.t = "boolean"   -> v.s
      [] v.t = "null"      -> "null"
      [] v.t = "undefined" -> "undefined"
      [] v.t = "object"    -> "[object Object]"
      [] OTHER             -> v.t \o ": " \o v.s

KeySet(kv) == {kv[i].k : i \in 1..Len(kv)}

\* obj[key]: undefined when obj has no such own property
Get(kv, key) ==
    IF key \in KeySet(kv)
    THEN kv[CHOOSE i \in 1..Len(kv) : kv[i].k = key].v
    ELSE Undefined

\* delete obj[key]
Delete(kv, key) == SelectSeq(kv, LAMBDA p : p.k # key)

(***************************************************************************)
(* COMMAND_MAPPING, request.ts lines 5-77                                  *)
(***************************************************************************)
COMMAND_MAPPING ==
       "list_accounts" :> [url |-> "/api/accounts", method |-> "GET"]
    @@ "get_current_account" :> [url |-> "/api/accounts/current", method |-> "GET"]
    @@ "switch_account" :> [url |-> "/api/accounts/switch", method |-> "POST"]
    @@ "add_account" :> [url |-> "/api/accounts", method |-> "POST"]
    @@ "delete_account" :> [url |-> "/api/accounts/:accountId", method |-> "DELETE"]
    @@ "delete_accounts" :> [url |-> "/api/accounts/bulk-delete", method |-> "POST"]
    @@ "fetch_account_quota" :> [url |-> "/api/accounts/:accountId/quota", method |-> "GET"]
    @@ "refresh_account_quota" :> [url |-> "/api/accounts/:accountId/quota", method |-> "GET"]
    @@ "refresh_all_quotas" :> [url |-> "/api/accounts/refresh", method |-> "POST"]
    @@ "reorder_accounts" :> [url |-> "/api/accounts/reorder", method |-> "POST"]
    @@ "warm_up_accounts" :> [url |-> "/api/accounts/warmup", method |-> "POST"]
    @@ "warm_up_all_accounts" :> [url |-> "/api/accounts/warmup", method |-> "POST"]
    @@ "warm_up_account" :> [url |-> "/api/accounts/:accountId/warmup", method |-> "POST"]
    @@ "update_account_label" :> [url |-> "/api/accounts/:accountId/label", method |-> "POST"]
    @@ "export_accounts" :> [url |-> "/api/accounts/export", method |-> "POST"]
    @@ "bind_device_profile" :> [url |-> "/api/accounts/:accountId/bind-device", method |-> "POST"]
    @@ "get_device_profiles" :> [url |-> "/api/accounts/:accountId/device-profiles", method |-> "GET"]
    @@ "list_device_versions" :> [url |-> "/api/accounts/:accountId/device-versions", method |-> "GET"]
    @@ "preview_generate_profile" :> [url |-> "/api/accounts/device-preview", method |-> "POST"]
    @@ "bind_device_profile_with_profile" :> [url |-> "/api/accounts/:accountId/bind-device-profile", method |-> "POST"]
    @@ "restore_original_device" :> [url |-> "/api/accounts/restore-original", method |-> "POST"]
    @@ "restore_device_version" :> [url |-> "/api/accounts/:accountId/device-versions/:versionId/restore", method |-> "POST"]
    @@ "delete_device_version" :> [url |-> "/api/accounts/:accountId/device-versions/:versionId", method |-> "DELETE"]
    @@ "open_device_folder" :> [url |-> "/api/system/open-folder", method |-> "POST"]
    @@ "load_config" :> [url |-> "/api/config", method |-> "GET"]
    @@ "save_config" :> [url |-> "/api/config", method |-> "POST"]
    @@ "enable_debug_console" :> [url |-> "/api/debug/enable", method |-> "POST"]
    @@ "disable_debug_console" :> [url |-> "/api/debug/disable", method |-> "POST"]
    @@ "is_debug_console_enabled" :> [url |-> "/api/debug/enabled", method |-> "GET"]
    @@ "get_debug_console_logs" :> [url |-> "/api/debug/logs", method |-> "GET"]
    @@ "clear_debug_console_logs" :> [url |-> "/api/debug/logs/clear", method |-> "POST"]
    @@ "get_data_dir_path" :> [url |-> "/api/system/data-dir", method |-> "GET"]
    @@ "get_update_settings" :> [url |-> "/api/system/updates/settings", method |-> "GET"]
    @@ "save_update_settings" :> [url |-> "/api/system/updates/save", method |-> "POST"]
    @@ "is_auto_launch_enabled" :> [url |-> "/api/system/autostart/status", method |-> "GET"]
    @@ "toggle_auto_launch" :> [url |-> "/api/system/autostart/toggle", method |-> "POST"]
    @@ "get_http_api_settings" :> [url |-> "/api/system/http-api/settings", method |-> "GET"]
    @@ "save_http_api_settings" :> [url |-> "/api/system/http-api/settings", method |-> "POST"]
    @@ "get_antigravity_path" :> [url |-> "/api/system/antigravity/path", method |-> "GET"]
    @@ "get_antigravity_args" :> [url |-> "/api/system/antigravity/args", method |-> "GET"]
    @@ "should_check_updates" :> [url |-> "/api/system/updates/check-status", method |-> "GET"]
    @@ "check_for_updates" :> [url |-> "/api/system/updates/check", method |-> "POST"]
    @@ "update_last_check_time" :> [url |-> "/api/system/updates/touch", method |-> "POST"]
    @@ "prepare_oauth_url" :> [url |-> "/api/auth/url", method |-> "GET"]
    @@ "start_oauth_login" :> [url |-> "/api/accounts/oauth/start", method |-> "POST"]
    @@ "complete_oauth_login" :> [url |-> "/api/accounts/oauth/complete", method |-> "POST"]
    @@ "cancel_oauth_login" :> [url |-> "/api/accounts/oauth/cancel", method |-> "POST"]
    @@ "submit_oauth_code" :> [url |-> "/api/accounts/oauth/submit-code", method |-> "POST"]
    @@ "import_v1_accounts" :> [url |-> "/api/accounts/import/v1", method |-> "POST"]
    @@ "import_from_db" :> [url |-> "/api/accounts/import/db", method |-> "POST"]
    @@ "import_custom_db" :> [url |-> "/api/accounts/import/db-custom", method |-> "POST"]
    @@ "sync_account_from_db" :> [url |-> "/api/accounts/sync/db", method |-> "POST"]
    @@ "open_data_folder" :> [url |-> "/api/system/open-folder", method |-> "POST"]
    @@ "clear_antigravity_cache" :> [url |-> "/api/system/cache/clear", method |-> "POST"]
    @@ "get_antigravity_cache_paths" :> [url |-> "/api/system/cache/paths", method |-> "GET"]
    @@ "clear_log_cache" :> [url |-> "/api/system/logs/clear-cache", method |-> "POST"]

\* line 92-93: COMMAND_MAPPING[cmd] is undefined for a command the table
\* does not list
HasMapping(cmd) == cmd \in DOMAIN COMMAND_MAPPING

\* line 5: the verbs the type of an entry admits
Verbs == {"GET", "POST", "DELETE", "PATCH"}

\* lines 6-76: the rows of the object literal
TableRows == 56

(***************************************************************************)
(* JSON.stringify and JSON.parse                                           *)
(***************************************************************************)
RECURSIVE QuoteFrom(_, _)
QuoteFrom(s, i) ==
    IF i > Len(s) THEN ""
    ELSE (IF CharAt(s, i) \in {"\"", "\\"} THEN "\\" \o CharAt(s, i)
          ELSE CharAt(s, i)) \o QuoteFrom(s, i + 1)

\* a JSON string literal
JSONQuote(s) == "\"" \o QuoteFrom(s, 1) \o "\""

RECURSIVE JSONStringify(_)
RECURSIVE MembersFrom(_, _, _)
\* JSON.stringify of a value other than undefined
JSONStringify(v) ==
    CASE v.t = "string"  -> JSONQuote(v.s)
      [] v.t = "number"  -> v.s
      [] v.t = "boolean" -> v.s
      [] v.t = "null"    -> "null"
      [] OTHER           -> "{" \o MembersFrom(v.o, 1, TRUE) \o "}"

\* the members of an object; a property whose value is undefined is left out
MembersFrom(kv, i, first) ==
    IF i > Len(kv) THEN ""
    ELSE IF kv[i].v.t = "undefined" THEN MembersFrom(kv, i + 1, first)
    ELSE (IF first THEN "" ELSE ",")
            \o JSONQuote(kv[i].k) \o ":" \o JSONStringify(kv[i].v)
            \o MembersFrom(kv, i + 1, FALSE)

ParseFail == [ok |-> FALSE, v |-> Undefined, pos |-> 0]

ParseOk(v, pos) == [ok |-> TRUE, v |-> v, pos |-> pos]

RECURSIVE SkipWs(_, _)
SkipWs(s, i) == IF i <= Len(s) /\ CharAt(s, i) = " " THEN SkipWs(s, i + 1) ELSE i

RECURSIVE SkipDigits(_, _)
SkipDigits(s, i) ==
    IF i <= Len(s) /\ CharAt(s, i) \in Digit THEN SkipDigits(s, i + 1) ELSE i

\* the characters of a string literal from position i (after the opening
\* quote) up to its closing quote; acc is the text read so far
RECURSIVE ParseStringFrom(_, _, _)
ParseStringFrom(s, i, acc) ==
    IF i > Len(s) THEN ParseFail
    ELSE IF CharAt(s, i) = "\"" THEN ParseOk(Str(acc), i + 1)
    ELSE IF CharAt(s, i) = "\\"
         THEN IF i + 1 <= Len(s) /\ CharAt(s, i + 1) \in {"\"", "\\"}
              THEN ParseStringFrom(s, i + 2, acc \o CharAt(s, i + 1))
              ELSE ParseFail
    ELSE ParseStringFrom(s, i + 1, acc \o CharAt(s, i))

\* obj[key] = v while parsing: a repeated key keeps its place, the last wins
Put(kv, key, v) ==
    IF key \in KeySet(kv)
    THEN [i \in 1..Len(kv) |-> IF kv[i].k = key THEN Prop(key, v) ELSE kv[i]]
    ELSE Append(kv, Prop(key, v))

RECURSIVE ParseValue(_, _)
RECURSIVE ParseMembers(_, _, _)
\* one JSON value of s from position i: null, true, false, an integer, a
\* string or an object (the grammar of the bodies the backend sends here)
ParseValue(s, i0) ==
    LET i == SkipWs(s, i0)
    IN  IF StartsAt(s, i, "null") THEN ParseOk(Null, i + 4)
        ELSE IF StartsAt(s, i, "true") THEN ParseOk(Bool("true"), i + 4)
        ELSE IF StartsAt(s, i, "false") THEN ParseOk(Bool("false"), i + 5)
        ELSE IF StartsAt(s, i, "\"") THEN ParseStringFrom(s, i + 1, "")
        ELSE IF i <= Len(s) /\ CharAt(s, i) \in Digit
             THEN ParseOk(Num(SubSeq(s, i, SkipDigits(s, i) - 1)), SkipDigits(s, i))
        ELSE IF StartsAt(s, i, "{")
             THEN IF StartsAt(s, SkipWs(s, i + 1), "}")
                  THEN ParseOk(Obj(<<>>), SkipWs(s, i + 1) + 1)
                  ELSE ParseMembers(s, i + 1, <<>>)
        ELSE ParseFail

\* the members of an object from position i, up to and including its "}"
ParseMembers(s, i0, acc) ==
    LET i == SkipWs(s, i0)
    IN  IF ~StartsAt(s, i, "\"") THEN ParseFail
        ELSE LET key == ParseStringFrom(s, i + 1, "")
             IN  IF ~key.ok THEN ParseFail
                 ELSE LET c == SkipWs(s, key.pos)
                      IN  IF ~StartsAt(s, c, ":") THEN ParseFail
                          ELSE LET val == ParseValue(s, c + 1)
                               IN  IF ~val.ok THEN ParseFail
                                   ELSE LET n   == SkipWs(s, val.pos)
                                            kv2 == Put(acc, key.v.s, val.v)
                                        IN  IF StartsAt(s, n, ",")
                                            THEN ParseMembers(s, n + 1, kv2)
                                            ELSE IF StartsAt(s, n, "}")
                                            THEN ParseOk(Obj(kv2), n + 1)
                                            ELSE ParseFail

\* JSON.parse(text): ok is FALSE where JSON.parse throws a SyntaxError
JSONParse(text) ==
    LET r == ParseValue(text, 1)
    IN  IF r.ok /\ SkipWs(text, r.pos) = Len(text) + 1
        THEN [ok |-> TRUE, v |-> r.v]
        ELSE [ok |-> FALSE, v |-> Undefined]

(***************************************************************************)
(* Building the HTTP request, request.ts lines 98-144                      *)
(***************************************************************************)
\* line 106: the test that decides whether key is a path parameter
HasPlaceholder(url, key) == Includes(url, ":" \o key)

\* line 110 with bodyArgs = args at line 100: one object under two names,
\* so that the delete removes the key from the caller's object as well
DeleteShared(st, key) ==
    [st EXCEPT !.bodyArgs = Delete(@, key), !.args = Delete(@, key)]

\* lines 100 and 110: bodyArgs is a new object ({ ...args }), so that
\* delete bodyArgs[key] leaves the caller's object as it is
DeleteCopied(st, key) == [st EXCEPT !.bodyArgs = Delete(@, key)]

\* lines 104-113: the loop over Object.keys(args), from the i-th key on.
\* st.url is the url so far, st.bodyArgs the copy made at line 100,
\* st.args the entries of the caller's object and st.consumed the keys for
\* which lines 107-111 ran.
RECURSIVE SubstituteFrom(_, _, _)
SubstituteFrom(st, kv, i) ==
    IF i > Len(kv) THEN st
    ELSE IF HasPlaceholder(st.url, kv[i].k)
    THEN SubstituteFrom(
            [DeleteCopied(st, kv[i].k) EXCEPT
                !.url = Replace(st.url, ":" \o kv[i].k,
                                encodeURIComponent(String(kv[i].v))),
                !.consumed = Append(st.consumed, kv[i].k)], kv, i + 1)
    ELSE SubstituteFrom(st, kv, i + 1)

\* lines 98-114
Substitute(template, args) ==
    IF Truthy(args)
    THEN SubstituteFrom([url |-> template, bodyArgs |-> args.o,
                         args |-> args.o, consumed |-> <<>>], args.o, 1)
    ELSE [url |-> template, bodyArgs |-> <<>>, args |-> <<>>,
          consumed |-> <<>>]

\* lines 98-144: the caller's argument object once the request is built
\* (lines 116-144 read args and bodyArgs and write neither)
ArgsAfter(cmd, args) ==
    IF Truthy(args)
    THEN Obj(Substitute(COMMAND_MAPPING[cmd].url, args).args)
    ELSE args

\* line 116
ReadApiKey(win, storage) == IF win THEN storage ELSE Null

\* lines 120-126 without the x-api-key header
HeadersBearerOnly(apiKey) ==
    <<Prop("Content-Type", "application/json")>>
    \o (IF Truthy(apiKey)
        THEN <<Prop("Authorization", "Bearer " \o apiKey.s)>>
        ELSE <<>>)

\* lines 120-126
Headers(apiKey) ==
    <<Prop("Content-Type", "application/json")>>
    \o (IF Truthy(apiKey)
        THEN <<Prop("Authorization", "Bearer " \o apiKey.s),
               Prop("x-api-key", apiKey.s)>>
        ELSE <<>>)

\* line 133 left out: no entry of args is skipped
SkipNever(url, value) == FALSE

\* line 133: the test that skips an entry of args as a path parameter
SkipAsPath(url, value) == Includes(url, encodeURIComponent(String(value)))

\* line 134
IsNullish(value) == value.t \in {"undefined", "null"}

\* lines 131-137 with the entries appended from the last one to the first
RECURSIVE ParamsFromReversed(_, _, _)
ParamsFromReversed(url, kv, i) ==
    IF i > Len(kv) THEN <<>>
    ELSE ParamsFromReversed(url, kv, i + 1)
            \o (IF ~SkipAsPath(url, kv[i].v) /\ ~IsNullish(kv[i].v)
                THEN <<Prop(kv[i].k, String(kv[i].v))>>
                ELSE <<>>)

\* lines 131-137: the entries appended to params, from the i-th entry on
RECURSIVE ParamsFrom(_, _, _)
ParamsFrom(url, kv, i) ==
    IF i > Len(kv) THEN <<>>
    ELSE (IF ~SkipAsPath(url, kv[i].v) /\ ~IsNullish(kv[i].v)
          THEN <<Prop(kv[i].k, String(kv[i].v))>>
          ELSE <<>>) \o ParamsFrom(url, kv, i + 1)

\* URLSearchParams.toString
RECURSIVE SerializeFrom(_, _)
SerializeFrom(params, i) ==
    IF i > Len(params) THEN ""
    ELSE (IF i > 1 THEN "&" ELSE "")
            \o FormEncode(params[i].k) \o "=" \o FormEncode(params[i].v)
            \o SerializeFrom(params, i + 1)

\* lines 130-139: the url with the query string appended
WithQuery(url, args) ==
    LET qs == SerializeFrom(ParamsFrom(url, args.o, 1), 1)
    IN  IF qs # "" THEN url \o "?" \o qs ELSE url

\* line 142 without the unwrapping of request
BodyWhole(bodyArgs) == Obj(bodyArgs)

\* line 142
BodyOf(bodyArgs) ==
    IF Get(bodyArgs, "request") # Undefined
    THEN Get(bodyArgs, "request")
    ELSE Obj(bodyArgs)

\* lines 129 and 140
SendsQuery(method, args) == method \in {"GET", "DELETE"} /\ Truthy(args)

\* line 140 without the test of the method
SendsBodyAlways(method, args) == Truthy(args)

SendsBody(method, args) ==
    ~SendsQuery(method, args) /\ method \in {"POST", "PATCH"} /\ Truthy(args)

\* lines 98-144: the url and options handed to fetch; consumed records the
\* keys that lines 107-111 used as path parameters
BuildRequest(cmd, args, apiKey) ==
    LET mapping == COMMAND_MAPPING[cmd]
        st      == Substitute(mapping.url, args)
    IN  [url      |-> IF SendsQuery(mapping.method, args)
                      THEN WithQuery(st.url, args) ELSE st.url,
         method   |-> mapping.method,
         headers  |-> Headers(apiKey),
         hasBody  |-> SendsBody(mapping.method, args),
         body     |-> IF SendsBody(mapping.method, args)
                      THEN JSONStringify(BodyOf(st.bodyArgs)) ELSE "",
         consumed |-> st.consumed]

(***************************************************************************)
(* Normalising the response, request.ts lines 148-177                      *)
(***************************************************************************)
\* the debounce window of line 153, in milliseconds
DebounceMs == 2000

\* window._lastAuthErrorTime before the first write (the property is absent)
Unset == -1

\* line 152: (window as any)._lastAuthErrorTime || 0
LastAuthError(stored) == IF stored = Unset THEN 0 ELSE stored

\* line 153 with >= for >
ShouldEmitAtEdge(t, stored) == t - LastAuthError(stored) >= DebounceMs

\* line 153
ShouldEmit(t, stored) == t - LastAuthError(stored) > DebounceMs

\* Response.ok
IsOk(status) == status >= 200 /\ status <= 299

RECURSIVE NumToString(_)
NumToString(n) ==
    IF n < 10 THEN CharAt("0123456789", n + 1)
    ELSE NumToString(n \div 10) \o CharAt("0123456789", (n % 10) + 1)

\* line 158: response.json().catch(() => ({}))
ErrorData(text) ==
    IF JSONParse(text).ok THEN JSONParse(text).v ELSE Obj(<<>>)

\* errorData.error: reading a property of null throws a TypeError, a
\* primitive has no such property
ErrorField(errorData) ==
    IF errorData.t = "object" THEN Get(errorData.o, "error") ELSE Undefined

\* line 159: the value thrown for a non-2xx response
Thrown(errorData, status) ==
    IF errorData.t = "null"
    THEN Err("TypeError", "Cannot read properties of null (reading 'error')")
    ELSE IF Truthy(ErrorField(errorData))
    THEN ErrorField(errorData)
    ELSE Str("HTTP Error " \o NumToString(status))

\* lines 168-177 without the test of line 168
ParsedUnguarded(text) ==
    IF JSONParse(text).ok THEN JSONParse(text).v ELSE Str(text)

\* lines 168-177 with the fallback of line 176 left out
ParsedOrNull(text) ==
    IF text = "" THEN Null
    ELSE IF JSONParse(text).ok THEN JSONParse(text).v
    ELSE Null

\* lines 168-177: the value returned for the text of a 2xx response
Parsed(text) ==
    IF text = "" THEN Null
    ELSE IF JSONParse(text).ok THEN JSONParse(text).v
    ELSE Str(text)

\* line 95
NotSupported(cmd) ==
    Err("Error", "Command [" \o cmd \o "] not supported in Web mode.")

\* line 2: the probe for the host-injected globals
Probe(win, internals, tauri) == win /\ (internals \/ tauri)

(***************************************************************************)
(* Bounds and the inputs drawn from them                                   *)
(***************************************************************************)
\* concurrent calls of request
MaxCalls == 2

\* steps of the clock
MaxTicks == 2

\* entries of an argument bag
MaxKeys == 2

\* Date.now() when the process starts (epoch time: far above DebounceMs)
StartTime == 5000

Calls == 1..MaxCalls

\* commands the table lists, and names of native commands it does not list
Unmapped == {"show_main_window", "get_proxy_status"}

AllCommands == DOMAIN COMMAND_MAPPING \cup Unmapped

Account == Obj(<<Prop("accountId", Str("abc123"))>>)

\* the inputs of the dispatch life cycle
Commands == {"delete_account"} \cup Unmapped

Bags == {Account}

\* the entries argument bags are made of: the path parameters of the
\* table's templates, a key that is a prefix of one, a free parameter (one
\* of its values occurs in every url of the table) and the request wrapper
Entries ==
    {Prop("accountId", Str("abc123")),
     Prop("versionId", Str("v:1")),
     Prop("account", Str("zz")),
     Prop("extra", Str("x")), Prop("extra", Str("api")),
     Prop("extra", Str("a b")),
     Prop("extra", Null), Prop("extra", Undefined),
     Prop("request", Obj(<<Prop("label", Str("L"))>>)),
     Prop("request", Obj(<<Prop("accountId", Str("other"))>>)),
     Prop("request", Null)}

DistinctKeys(kv) ==
    \A i, j \in 1..Len(kv) : i # j => kv[i].k # kv[j].k

\* every bag of at most MaxKeys entries, in every key order, and no bag
BagUniverse ==
    {Undefined} \cup
    {Obj(kv) : kv \in {q \in UNION {[1..n -> Entries] : n \in 0..MaxKeys} :
                          DistinctKeys(q)}}

Statuses == {200, 204, 401, 403, 500}

Texts ==
    {"", "ok", "null", "{}", "{\"error\":\"forbidden\"}",
     "{\"error\":\"\"}", "{\"message\":\"denied\"}", "\"done\"", "12"}

Response(status, text) == [status |-> status, text |-> text]

\* a 204 response has no body
AllResponses ==
    {Response(st, tx) : st \in Statuses \ {204}, tx \in Texts}
    \cup {Response(204, "")}

\* the responses of the dispatch life cycle
Responses ==
    {Response(200, "{}"), Response(204, ""),
     Response(401, "{\"error\":\"forbidden\"}"), Response(403, "ok")}

NoResponse == Response(0, "")

\* lines 158-159 for each response of the model: the value thrown for it
ThrownFor == [r \in AllResponses |-> Thrown(ErrorData(r.text), r.status)]

\* what fetch rejects with when no response is obtained
NetworkError == Err("TypeError", "Failed to fetch")

\* the same failure as two engines word it
NetworkErrors == {NetworkError, Err("TypeError", "Load failed")}

\* how the promise a call awaits (invoke, fetch) settled
Outcome(kind, v) == [kind |-> kind, v |-> v]

NoOutcome == Outcome("pending", Undefined)

NativeResults == {Null, Str("native")}

NativeErrors == {Str("native failure")}

\* getItem('abv_admin_api_key'): no item, an empty item, a token
Credentials == {Null, Str(""), Str("tok")}

\* the values the application gives the item in the dispatch life cycle
SessionKeys == {Null, Str("tok")}

TickSteps == {DebounceMs, DebounceMs + 1}

(***************************************************************************)
(* State                                                                   *)
(***************************************************************************)
VARIABLES
    hasWindow,          \* typeof window !== 'undefined'
    isTauri,            \* the module constant of line 2
    globals,            \* which of window.__TAURI_INTERNALS__, __TAURI__ exist
    table,              \* the object COMMAND_MAPPING is bound to
    storage,            \* sessionStorage.getItem('abv_admin_api_key')
    now,                \* Date.now()
    ticks,              \* steps the clock has made
    lastAuthErrorTime,  \* window._lastAuthErrorTime
    emitted,            \* the times 'abv-unauthorized' was dispatched at
    seen401,            \* the times a 401 response reached line 149 at
    pc,                 \* where each call of request is
    cmd,                \* its cmd
    args,               \* its args
    sent,               \* the requests it handed to fetch
    invoked,            \* the <<cmd, args>> it handed to invoke
    resp,               \* the response fetch gave it
    result,             \* the value it resolved or rejected with
    outcome,            \* how invoke settled, or what fetch rejected with
    callerArgs          \* the caller's argument object, as the call left it

vars == <<hasWindow, isTauri, globals, table, storage, now, ticks,
          lastAuthErrorTime, emitted, seen401, pc, cmd, args, sent, invoked, resp, result, outcome,
          callerArgs>>

env == <<hasWindow, isTauri, globals, table>>

clock == <<now, ticks>>

signal == <<lastAuthErrorTime, emitted, seen401>>

\* the host-injected globals a window can carry
Globals == [internals : BOOLEAN, tauri : BOOLEAN]

NoGlobals == [internals |-> FALSE, tauri |-> FALSE]

\* what the native host injects into its webview
HostGlobals == [internals |-> TRUE, tauri |-> FALSE]

Idle(i) == pc[i] = "idle"

Settled(i) == pc[i] \in {"resolved", "rejected"}

\* calls start in the order of their index
MayStart(i) == Idle(i) /\ \A j \in 1..(i - 1) : ~Idle(j)

InitCalls ==
    /\ pc = [i \in Calls |-> "idle"]
    /\ cmd = [i \in Calls |-> ""]
    /\ args = [i \in Calls |-> Undefined]
    /\ sent = [i \in Calls |-> <<>>]
    /\ invoked = [i \in Calls |-> <<>>]
    /\ resp = [i \in Calls |-> NoResponse]
    /\ result = [i \in Calls |-> Undefined]
    /\ outcome = [i \in Calls |-> NoOutcome]
    /\ callerArgs = [i \in Calls |-> Undefined]

InitSignal ==
    /\ now = StartTime
    /\ ticks = 0
    /\ lastAuthErrorTime = Unset
    /\ emitted = <<>>
    /\ seen401 = <<>>

\* a browser or native webview (a window, with or without the host's
\* globals) or an environment without a window
Init ==
    /\ hasWindow \in BOOLEAN
    /\ globals \in (IF hasWindow THEN {NoGlobals, HostGlobals} ELSE {NoGlobals})
    /\ isTauri = Probe(hasWindow, globals.internals, globals.tauri)
    /\ table = COMMAND_MAPPING
    /\ storage \in (IF hasWindow THEN SessionKeys ELSE {Null})
    /\ InitSignal
    /\ InitCalls

(***************************************************************************)
(* request(cmd, args), one action per run between two awaits               *)
(***************************************************************************)
\* lines 81-83 with the probe of line 2 made again by every call
DispatchNativeLive(i, c, a) ==
    /\ MayStart(i)
    /\ Probe(hasWindow, globals.internals, globals.tauri)
    /\ pc' = [pc EXCEPT ![i] = "importing"]
    /\ cmd' = [cmd EXCEPT ![i] = c]
    /\ args' = [args EXCEPT ![i] = a]
    /\ callerArgs' = [callerArgs EXCEPT ![i] = a]
    /\ UNCHANGED <<env, storage, clock, signal, sent, invoked, resp, result,
                   outcome>>

\* lines 81-83: the native path, up to the await of the dynamic import
DispatchNative(i, c, a) ==
    /\ MayStart(i)
    /\ isTauri
    /\ pc' = [pc EXCEPT ![i] = "importing"]
    /\ cmd' = [cmd EXCEPT ![i] = c]
    /\ args' = [args EXCEPT ![i] = a]
    /\ callerArgs' = [callerArgs EXCEPT ![i] = a]
    /\ UNCHANGED <<env, storage, clock, signal, sent, invoked, resp, result,
                   outcome>>

\* line 84 behind the lookup of lines 92-96: a command the table does not
\* list is refused and never reaches invoke
InvokeIfMapped(i) ==
    /\ pc[i] = "importing"
    /\ IF HasMapping(cmd[i])
       THEN /\ invoked' = [invoked EXCEPT ![i] = Append(@, <<cmd[i], args[i]>>)]
            /\ pc' = [pc EXCEPT ![i] = "invoking"]
            /\ UNCHANGED result
       ELSE /\ pc' = [pc EXCEPT ![i] = "rejected"]
            /\ result' = [result EXCEPT ![i] = NotSupported(cmd[i])]
            /\ UNCHANGED invoked
    /\ UNCHANGED <<env, storage, clock, signal, cmd, args, sent, resp, outcome,
                   callerArgs>>

\* line 84: invoke(cmd, args)
Invoke(i) ==
    /\ pc[i] = "importing"
    /\ invoked' = [invoked EXCEPT ![i] = Append(@, <<cmd[i], args[i]>>)]
    /\ pc' = [pc EXCEPT ![i] = "invoking"]
    /\ UNCHANGED <<env, storage, clock, signal, cmd, args, sent, resp, result,
                   outcome, callerArgs>>

\* line 84: the primitive resolves with v
InvokeResolved(i, v) ==
    /\ pc[i] = "invoking"
    /\ pc' = [pc EXCEPT ![i] = "resolved"]
    /\ result' = [result EXCEPT ![i] = v]
    /\ outcome' = [outcome EXCEPT ![i] = Outcome("resolved", v)]
    /\ UNCHANGED <<env, storage, clock, signal, cmd, args, sent, invoked,
                   resp, callerArgs>>

\* lines 85-88 with the error wrapped in a new one before it is thrown
InvokeRejectedWrapped(i, e) ==
    /\ pc[i] = "invoking"
    /\ pc' = [pc EXCEPT ![i] = "rejected"]
    /\ result' = [result EXCEPT ![i] = Err("Error", "Tauri Invoke Error")]
    /\ outcome' = [outcome EXCEPT ![i] = Outcome("rejected", e)]
    /\ UNCHANGED <<env, storage, clock, signal, cmd, args, sent, invoked,
                   resp, callerArgs>>

\* lines 85-88: the primitive rejects with e
InvokeRejected(i, e) ==
    /\ pc[i] = "invoking"
    /\ pc' = [pc EXCEPT ![i] = "rejected"]
    /\ result' = [result EXCEPT ![i] = e]
    /\ outcome' = [outcome EXCEPT ![i] = Outcome("rejected", e)]
    /\ UNCHANGED <<env, storage, clock, signal, cmd, args, sent, invoked,
                   resp, callerArgs>>

\* lines 92-96 with the lookup made after a request to a default route
DispatchUnmappedLate(i, c, a) ==
    /\ MayStart(i)
    /\ ~isTauri
    /\ ~HasMapping(c)
    /\ pc' = [pc EXCEPT ![i] = "rejected"]
    /\ cmd' = [cmd EXCEPT ![i] = c]
    /\ args' = [args EXCEPT ![i] = a]
    /\ sent' = [sent EXCEPT ![i] =
                  Append(@, [url |-> "/api/" \o c, method |-> "POST",
                             headers |-> Headers(ReadApiKey(hasWindow, storage)),
                             hasBody |-> FALSE, body |-> "",
                             consumed |-> <<>>])]
    /\ result' = [result EXCEPT ![i] = NotSupported(c)]
    /\ callerArgs' = [callerArgs EXCEPT ![i] = a]
    /\ UNCHANGED <<env, storage, clock, signal, invoked, resp, outcome>>

\* lines 92-96 with the refused command registered in the table
DispatchUnmappedRegisters(i, c, a) ==
    /\ MayStart(i)
    /\ ~isTauri
    /\ ~HasMapping(c)
    /\ pc' = [pc EXCEPT ![i] = "rejected"]
    /\ cmd' = [cmd EXCEPT ![i] = c]
    /\ args' = [args EXCEPT ![i] = a]
    /\ result' = [result EXCEPT ![i] = NotSupported(c)]
    /\ callerArgs' = [callerArgs EXCEPT ![i] = a]
    /\ table' = (c :> [url |-> "/api/" \o c, method |-> "POST"]) @@ table
    /\ UNCHANGED <<hasWindow, isTauri, globals, storage, clock, signal, sent,
                   invoked, resp, outcome>>

\* lines 92-96: no mapping
DispatchUnmapped(i, c, a) ==
    /\ MayStart(i)
    /\ ~isTauri
    /\ ~HasMapping(c)
    /\ pc' = [pc EXCEPT ![i] = "rejected"]
    /\ cmd' = [cmd EXCEPT ![i] = c]
    /\ args' = [args EXCEPT ![i] = a]
    /\ result' = [result EXCEPT ![i] = NotSupported(c)]
    /\ callerArgs' = [callerArgs EXCEPT ![i] = a]
    /\ UNCHANGED <<env, storage, clock, signal, sent, invoked, resp, outcome>>

\* lines 92-147 with the api key of line 116 read by the first call only
\* and kept: a later call sends the headers the first call sent
DispatchBrowserCached(i, c, a) ==
    /\ MayStart(i)
    /\ ~isTauri
    /\ HasMapping(c)
    /\ pc' = [pc EXCEPT ![i] = "fetching"]
    /\ cmd' = [cmd EXCEPT ![i] = c]
    /\ args' = [args EXCEPT ![i] = a]
    /\ sent' = [sent EXCEPT ![i] =
                  Append(@, [BuildRequest(c, a, ReadApiKey(hasWindow, storage))
                             EXCEPT !.headers =
                                IF i > 1 /\ sent[1] # <<>>
                                THEN sent[1][1].headers ELSE @])]
    /\ callerArgs' = [callerArgs EXCEPT ![i] = ArgsAfter(c, a)]
    /\ UNCHANGED <<env, storage, clock, signal, invoked, resp, result,
                   outcome>>

\* lines 92-147: the browser path up to the await of fetch(url, options)
DispatchBrowser(i, c, a) ==
    /\ MayStart(i)
    /\ ~isTauri
    /\ HasMapping(c)
    /\ pc' = [pc EXCEPT ![i] = "fetching"]
    /\ cmd' = [cmd EXCEPT ![i] = c]
    /\ args' = [args EXCEPT ![i] = a]
    /\ sent' = [sent EXCEPT ![i] =
                  Append(@, BuildRequest(c, a, ReadApiKey(hasWindow, storage)))]
    /\ callerArgs' = [callerArgs EXCEPT ![i] = ArgsAfter(c, a)]
    /\ UNCHANGED <<env, storage, clock, signal, invoked, resp, result,
                   outcome>>

\* lines 147, 178-181 with one more attempt in the catch: the request is
\* handed to fetch again before the error is given up on
FetchFailedRetry(i, e) ==
    /\ pc[i] = "fetching"
    /\ IF Len(sent[i]) < 2
       THEN /\ sent' = [sent EXCEPT ![i] = Append(@, @[1])]
            /\ UNCHANGED <<pc, result, outcome>>
       ELSE /\ pc' = [pc EXCEPT ![i] = "rejected"]
            /\ result' = [result EXCEPT ![i] = e]
            /\ outcome' = [outcome EXCEPT ![i] = Outcome("rejected", e)]
            /\ UNCHANGED sent
    /\ UNCHANGED <<env, storage, clock, signal, cmd, args, invoked, resp,
                   callerArgs>>

\* lines 147, 178-181 with a new Error thrown from the catch
FetchFailedWrapped(i, e) ==
    /\ pc[i] = "fetching"
    /\ pc' = [pc EXCEPT ![i] = "rejected"]
    /\ result' = [result EXCEPT ![i] = Err("Error", "Web Fetch Error")]
    /\ outcome' = [outcome EXCEPT ![i] = Outcome("rejected", e)]
    /\ UNCHANGED <<env, storage, clock, signal, cmd, args, sent, invoked,
                   resp, callerArgs>>

\* lines 147, 178-181: fetch rejects
FetchFailed(i, e) ==
    /\ pc[i] = "fetching"
    /\ pc' = [pc EXCEPT ![i] = "rejected"]
    /\ result' = [result EXCEPT ![i] = e]
    /\ outcome' = [outcome EXCEPT ![i] = Outcome("rejected", e)]
    /\ UNCHANGED <<env, storage, clock, signal, cmd, args, sent, invoked,
                   resp, callerArgs>>

\* lines 148-158 without the test of the status at line 149: every non-2xx
\* response dispatches the event
ErrorResponseSignals(i, r) ==
    /\ pc[i] = "fetching"
    /\ ~IsOk(r.status)
    /\ ~(~isTauri /\ r.status = 401)
    /\ resp' = [resp EXCEPT ![i] = r]
    /\ emitted' = Append(emitted, now)
    /\ pc' = [pc EXCEPT ![i] = "readingError"]
    /\ UNCHANGED <<env, storage, clock, lastAuthErrorTime, seen401, cmd, args,
                   sent, invoked, result, outcome, callerArgs>>

\* lines 148-158: a non-2xx response other than a 401 handled at 149-157,
\* up to the await of response.json()
ErrorResponse(i, r) ==
    /\ pc[i] = "fetching"
    /\ ~IsOk(r.status)
    /\ ~(~isTauri /\ r.status = 401)
    /\ resp' = [resp EXCEPT ![i] = r]
    /\ pc' = [pc EXCEPT ![i] = "readingError"]
    /\ UNCHANGED <<env, storage, clock, signal, cmd, args, sent, invoked,
                   result, outcome, callerArgs>>

\* lines 148-158 with the test of line 153 made on a time stamp read
\* before any call was answered (a stale copy: no event yet), the write of
\* line 154 coming too late for the calls already in flight
UnauthorizedStale(i, r) ==
    /\ pc[i] = "fetching"
    /\ ~IsOk(r.status)
    /\ ~isTauri /\ r.status = 401
    /\ hasWindow
    /\ resp' = [resp EXCEPT ![i] = r]
    /\ seen401' = Append(seen401, now)
    /\ IF ShouldEmit(now, Unset)
       THEN /\ lastAuthErrorTime' = now
            /\ emitted' = Append(emitted, now)
       ELSE UNCHANGED <<lastAuthErrorTime, emitted>>
    /\ pc' = [pc EXCEPT ![i] = "readingError"]
    /\ UNCHANGED <<env, storage, clock, cmd, args, sent, invoked, result,
                   outcome, callerArgs>>

\* lines 148-158 with line 154 moved out of the test of line 153: every
\* 401 writes the time
UnauthorizedStampsAlways(i, r) ==
    /\ pc[i] = "fetching"
    /\ ~IsOk(r.status)
    /\ ~isTauri /\ r.status = 401
    /\ hasWindow
    /\ resp' = [resp EXCEPT ![i] = r]
    /\ seen401' = Append(seen401, now)
    /\ lastAuthErrorTime' = now
    /\ IF ShouldEmit(now, lastAuthErrorTime)
       THEN emitted' = Append(emitted, now)
       ELSE UNCHANGED emitted
    /\ pc' = [pc EXCEPT ![i] = "readingError"]
    /\ UNCHANGED <<env, storage, clock, cmd, args, sent, invoked, result,
                   outcome, callerArgs>>

\* lines 148-158 with the present time for the 0 of line 152: while no
\* time is written the window counts from now
UnauthorizedFromNow(i, r) ==
    /\ pc[i] = "fetching"
    /\ ~IsOk(r.status)
    /\ ~isTauri /\ r.status = 401
    /\ hasWindow
    /\ resp' = [resp EXCEPT ![i] = r]
    /\ seen401' = Append(seen401, now)
    /\ IF ShouldEmit(now, IF lastAuthErrorTime = Unset THEN now
                          ELSE lastAuthErrorTime)
       THEN /\ lastAuthErrorTime' = now
            /\ emitted' = Append(emitted, now)
       ELSE UNCHANGED <<lastAuthErrorTime, emitted>>
    /\ pc' = [pc EXCEPT ![i] = "readingError"]
    /\ UNCHANGED <<env, storage, clock, cmd, args, sent, invoked, result,
                   outcome, callerArgs>>

\* lines 148-158: a 401 response where window exists: the debounced
\* 'abv-unauthorized' event, then the await of response.json()
Unauthorized(i, r) ==
    /\ pc[i] = "fetching"
    /\ ~IsOk(r.status)
    /\ ~isTauri /\ r.status = 401
    /\ hasWindow
    /\ resp' = [resp EXCEPT ![i] = r]
    /\ seen401' = Append(seen401, now)
    /\ IF ShouldEmit(now, lastAuthErrorTime)
       THEN /\ lastAuthErrorTime' = now
            /\ emitted' = Append(emitted, now)
       ELSE UNCHANGED <<lastAuthErrorTime, emitted>>
    /\ pc' = [pc EXCEPT ![i] = "readingError"]
    /\ UNCHANGED <<env, storage, clock, cmd, args, sent, invoked, result,
                   outcome, callerArgs>>

\* lines 149-152, 178-181: a 401 response where no window exists: reading
\* window at line 152 throws a ReferenceError, which line 180 rethrows
UnauthorizedNoWindow(i, r) ==
    /\ pc[i] = "fetching"
    /\ ~IsOk(r.status)
    /\ ~isTauri /\ r.status = 401
    /\ ~hasWindow
    /\ resp' = [resp EXCEPT ![i] = r]
    /\ seen401' = Append(seen401, now)
    /\ pc' = [pc EXCEPT ![i] = "rejected"]
    /\ result' = [result EXCEPT ![i] =
                    Err("ReferenceError", "window is not defined")]
    /\ UNCHANGED <<env, storage, clock, lastAuthErrorTime, emitted, cmd, args,
                   sent, invoked, outcome, callerArgs>>

\* lines 158-159 with the response kept in a variable that the calls
\* share: the error is made from the response of the call answered last
\* among those reading an error body
ErrorBodyReadShared(i) ==
    /\ pc[i] = "readingError"
    /\ pc' = [pc EXCEPT ![i] = "rejected"]
    /\ LET j == CHOOSE k \in Calls :
                    /\ pc[k] = "readingError"
                    /\ \A m \in Calls : pc[m] = "readingError" => m <= k
       IN  result' = [result EXCEPT ![i] =
                        Thrown(ErrorData(resp[j].text), resp[j].status)]
    /\ UNCHANGED <<env, storage, clock, signal, cmd, args, sent, invoked, resp,
                   outcome, callerArgs>>

\* lines 158-159 held back until every other call has settled
ErrorBodyReadWaits(i) ==
    /\ pc[i] = "readingError"
    /\ \A j \in Calls \ {i} : Settled(j)
    /\ pc' = [pc EXCEPT ![i] = "rejected"]
    /\ result' = [result EXCEPT ![i] = ThrownFor[resp[i]]]
    /\ UNCHANGED <<env, storage, clock, signal, cmd, args, sent, invoked, resp,
                   outcome, callerArgs>>

\* lines 158-159 with the error returned where line 159 throws it: the call
\* resolves with the value
ErrorBodyReadResolves(i) ==
    /\ pc[i] = "readingError"
    /\ pc' = [pc EXCEPT ![i] = "resolved"]
    /\ result' = [result EXCEPT ![i] =
                    Thrown(ErrorData(resp[i].text), resp[i].status)]
    /\ UNCHANGED <<env, storage, clock, signal, cmd, args, sent, invoked, resp,
                   outcome, callerArgs>>

\* lines 158-159, 178-181: response.json() settles and the error is thrown
ErrorBodyRead(i) ==
    /\ pc[i] = "readingError"
    /\ pc' = [pc EXCEPT ![i] = "rejected"]
    /\ result' = [result EXCEPT ![i] = ThrownFor[resp[i]]]
    /\ UNCHANGED <<env, storage, clock, signal, cmd, args, sent, invoked,
                   resp, outcome, callerArgs>>

\* lines 163-165: 204 No Content
NoContent(i, r) ==
    /\ pc[i] = "fetching"
    /\ IsOk(r.status)
    /\ r.status = 204
    /\ resp' = [resp EXCEPT ![i] = r]
    /\ pc' = [pc EXCEPT ![i] = "resolved"]
    /\ result' = [result EXCEPT ![i] = Null]
    /\ UNCHANGED <<env, storage, clock, signal, cmd, args, sent, invoked,
                   outcome, callerArgs>>

\* line 167: any other 2xx response, up to the await of response.text()
OkResponse(i, r) ==
    /\ pc[i] = "fetching"
    /\ IsOk(r.status)
    /\ r.status # 204
    /\ resp' = [resp EXCEPT ![i] = r]
    /\ pc' = [pc EXCEPT ![i] = "readingText"]
    /\ UNCHANGED <<env, storage, clock, signal, cmd, args, sent, invoked,
                   result, outcome, callerArgs>>

\* lines 168-177: response.text() settles
TextRead(i) ==
    /\ pc[i] = "readingText"
    /\ pc' = [pc EXCEPT ![i] = "resolved"]
    /\ result' = [result EXCEPT ![i] = Parsed(resp[i].text)]
    /\ UNCHANGED <<env, storage, clock, signal, cmd, args, sent, invoked,
                   resp, outcome, callerArgs>>

\* time passes
Tick(d) ==
    /\ ticks < MaxTicks
    /\ now' = now + d
    /\ ticks' = ticks + 1
    /\ UNCHANGED <<env, storage, signal, pc, cmd, args, sent, invoked, resp,
                   result, outcome, callerArgs>>

\* the application stores or clears the session credential
SetCredential(v) ==
    /\ hasWindow
    /\ storage # v
    /\ storage' = v
    /\ UNCHANGED <<env, clock, signal, pc, cmd, args, sent, invoked, resp,
                   result, outcome, callerArgs>>

Next ==
    \/ \E i \in Calls, c \in Commands, a \in Bags : DispatchNative(i, c, a)
    \/ \E i \in Calls : Invoke(i)
    \/ \E i \in Calls, v \in NativeResults : InvokeResolved(i, v)
    \/ \E i \in Calls, e \in NativeErrors : InvokeRejected(i, e)
    \/ \E i \in Calls, c \in Commands, a \in Bags : DispatchUnmapped(i, c, a)
    \/ \E i \in Calls, c \in Commands, a \in Bags : DispatchBrowser(i, c, a)
    \/ \E i \in Calls : FetchFailed(i, NetworkError)
    \/ \E i \in Calls, r \in Responses : ErrorResponse(i, r)
    \/ \E i \in Calls, r \in Responses : Unauthorized(i, r)
    \/ \E i \in Calls, r \in Responses : UnauthorizedNoWindow(i, r)
    \/ \E i \in Calls : ErrorBodyRead(i)
    \/ \E i \in Calls, r \in Responses : NoContent(i, r)
    \/ \E i \in Calls, r \in Responses : OkResponse(i, r)
    \/ \E i \in Calls : TextRead(i)
    \/ \E d \in TickSteps : Tick(d)
    \/ \E v \in SessionKeys : SetCredential(v)

Spec == Init /\ [][Next]_vars

(***************************************************************************)
(* The life cycle where what a call awaits does settle: the import,        *)
(* invoke, fetch and the reads of the body settle in the end, and the      *)
(* event loop then runs the continuation of the call.  The application's   *)
(* writes to the store are left out: they are no step of a call and no     *)
(* step of a call waits for them.                                          *)
(***************************************************************************)
\* the steps of call i after its start
Continue(i) ==
    \/ Invoke(i)
    \/ \E v \in NativeResults : InvokeResolved(i, v)
    \/ \E e \in NativeErrors : InvokeRejected(i, e)
    \/ FetchFailed(i, NetworkError)
    \/ \E r \in Responses : ErrorResponse(i, r)
    \/ \E r \in Responses : Unauthorized(i, r)
    \/ \E r \in Responses : UnauthorizedNoWindow(i, r)
    \/ ErrorBodyRead(i)
    \/ \E r \in Responses : NoContent(i, r)
    \/ \E r \in Responses : OkResponse(i, r)
    \/ TextRead(i)

NextLive ==
    \/ \E i \in Calls, c \in Commands, a \in Bags : DispatchNative(i, c, a)
    \/ \E i \in Calls, c \in Commands, a \in Bags : DispatchUnmapped(i, c, a)
    \/ \E i \in Calls, c \in Commands, a \in Bags : DispatchBrowser(i, c, a)
    \/ \E i \in Calls : Continue(i)
    \/ \E d \in TickSteps : Tick(d)

SpecLive ==
    Init /\ [][NextLive]_vars /\ \A i \in Calls : WF_vars(Continue(i))

(***************************************************************************)
(* Building the request: one browser-mode call, over every command and     *)
(* every bag of BagUniverse                                                *)
(***************************************************************************)
InitBrowser ==
    /\ hasWindow \in BOOLEAN
    /\ globals = NoGlobals
    /\ isTauri = Probe(hasWindow, globals.internals, globals.tauri)
    /\ table = COMMAND_MAPPING
    /\ storage \in (IF hasWindow THEN Credentials ELSE {Null})
    /\ InitSignal
    /\ InitCalls

(***************************************************************************)
(* The dispatch life cycle in a host that sets or removes its globals      *)
(* after the module was loaded                                             *)
(***************************************************************************)
\* the host (or any script of the page) writes window.__TAURI_INTERNALS__
\* or window.__TAURI__; the constant of line 2 is not evaluated again
SetGlobals(g) ==
    /\ hasWindow
    /\ g # globals
    /\ globals' = g
    /\ UNCHANGED <<hasWindow, isTauri, table, storage, clock, signal, pc, cmd,
                   args, sent, invoked, resp, result, outcome, callerArgs>>

NextHost ==
    \/ \E i \in Calls, c \in Commands, a \in Bags : DispatchNative(i, c, a)
    \/ \E i \in Calls, c \in Commands, a \in Bags : DispatchUnmapped(i, c, a)
    \/ \E i \in Calls, c \in Commands, a \in Bags : DispatchBrowser(i, c, a)
    \/ \E i \in Calls : Continue(i)
    \/ \E g \in Globals : SetGlobals(g)

\* a window with any of the globals, or no window
InitHost ==
    /\ hasWindow \in BOOLEAN
    /\ globals \in (IF hasWindow THEN Globals ELSE {NoGlobals})
    /\ isTauri = Probe(hasWindow, globals.internals, globals.tauri)
    /\ table = COMMAND_MAPPING
    /\ storage \in (IF hasWindow THEN SessionKeys ELSE {Null})
    /\ InitSignal
    /\ InitCalls

SpecHost == InitHost /\ [][NextHost]_vars

(***************************************************************************)
(* Calls that are all answered with a 401, with the bodies a backend or a  *)
(* proxy in front of it may send                                           *)
(***************************************************************************)
AuthResponses ==
    {Response(401, text) :
        text \in {"null", "{\"error\":\"forbidden\"}", "{\"error\":\"\"}",
                  "{\"message\":\"denied\"}", "ok"}}

NextAuth ==
    \/ \E i \in Calls, a \in Bags : DispatchBrowser(i, "delete_account", a)
    \/ \E i \in Calls, r \in AuthResponses : Unauthorized(i, r)
    \/ \E i \in Calls, r \in AuthResponses : UnauthorizedNoWindow(i, r)
    \/ \E i \in Calls : ErrorBodyRead(i)
    \/ \E d \in TickSteps : Tick(d)

SpecAuth == InitBrowser /\ [][NextAuth]_vars

NextBuild ==
    \/ /\ Idle(1)
       /\ \E c \in AllCommands, a \in BagUniverse : DispatchUnmapped(1, c, a)
    \/ /\ Idle(1)
       /\ \E c \in AllCommands, a \in BagUniverse : DispatchBrowser(1, c, a)

SpecBuild == InitBrowser /\ [][NextBuild]_vars

(***************************************************************************)
(* Normalising the response: one browser-mode call, over every response    *)
(* of AllResponses                                                         *)
(***************************************************************************)
NextResp ==
    \/ \E c \in Commands, a \in Bags : DispatchBrowser(1, c, a)
    \/ \E e \in NetworkErrors : FetchFailed(1, e)
    \/ \E r \in AllResponses : ErrorResponse(1, r)
    \/ \E r \in AllResponses : Unauthorized(1, r)
    \/ \E r \in AllResponses : UnauthorizedNoWindow(1, r)
    \/ ErrorBodyRead(1)
    \/ \E r \in AllResponses : NoContent(1, r)
    \/ \E r \in AllResponses : OkResponse(1, r)
    \/ TextRead(1)

SpecResp == InitBrowser /\ [][NextResp]_vars

(***************************************************************************)
(* Reading a request back, as the backend does                             *)
(***************************************************************************)
\* s.split(sep) for a one-character sep; acc is the piece being read
RECURSIVE SplitFrom(_, _, _, _)
SplitFrom(s, sep, i, acc) ==
    IF i > Len(s) THEN <<acc>>
    ELSE IF CharAt(s, i) = sep THEN <<acc>> \o SplitFrom(s, sep, i + 1, "")
    ELSE SplitFrom(s, sep, i + 1, acc \o CharAt(s, i))

Split(s, sep) == SplitFrom(s, sep, 1, "")

PathOf(url) ==
    IF Includes(url, "?") THEN SubSeq(url, 1, IndexOf(url, "?") - 1) ELSE url

QueryOf(url) ==
    IF Includes(url, "?") THEN SubSeq(url, IndexOf(url, "?") + 1, Len(url))
    ELSE ""

\* the name=value pairs of the query string, in order, still encoded
QueryPairs(url) ==
    IF QueryOf(url) = "" THEN <<>>
    ELSE [i \in 1..Len(Split(QueryOf(url), "&")) |->
            LET nv == Split(Split(QueryOf(url), "&")[i], "=")
            IN  Prop(nv[1], IF Len(nv) > 1 THEN nv[2] ELSE "")]

QueryNames(url) == KeySet(QueryPairs(url))

\* the top-level fields of the JSON body of a request
BodyFields(req) ==
    IF req.hasBody /\ JSONParse(req.body).ok /\ JSONParse(req.body).v.t = "object"
    THEN KeySet(JSONParse(req.body).v.o)
    ELSE {}

\* the names of the :name placeholders of a template
PlaceholderNames(template) ==
    LET segs == Split(template, "/")
    IN  {Tail(segs[i]) : i \in {n \in 1..Len(segs) : StartsAt(segs[n], 1, ":")}}

\* a ":" followed by the first character of a name
HasUnresolved(url) ==
    \E i \in 1..(Len(url) - 1) :
        CharAt(url, i) = ":" /\ CharAt(url, i + 1) \in Alnum \cup {"_"}

\* call i went down the browser path with a command of the table
Routed(i) == ~Idle(i) /\ ~isTauri /\ HasMapping(cmd[i])

\* the request of a routed call
Req(i) == sent[i][1]

Template(i) == COMMAND_MAPPING[cmd[i]].url

Verb(i) == COMMAND_MAPPING[cmd[i]].method

HasKey(bag, key) == bag.t = "object" /\ key \in KeySet(bag.o)

\* the entries of a bag whose keys are not in the list ks
Without(kv, ks) ==
    SelectSeq(kv, LAMBDA p : \A j \in 1..Len(ks) : ks[j] # p.k)

Supplies(bag, template) ==
    \A name \in PlaceholderNames(template) : HasKey(bag, name)

C2_MethodAndResolvedUrl ==
    \A i \in Calls :
        (Routed(i) /\ Supplies(args[i], Template(i)))
        => /\ Len(sent[i]) = 1
           /\ Req(i).method = Verb(i)
           /\ ~HasUnresolved(Req(i).url)

C2_Witness ==
    \E i \in Calls :
        /\ Routed(i)
        /\ cmd[i] = "delete_device_version"
        /\ Supplies(args[i], Template(i))
        /\ Req(i).method = "DELETE"
        /\ Req(i).url = "/api/accounts/abc123/device-versions/v%3A1"

C4_NoBodyOnGetDelete ==
    \A i \in Calls :
        (Routed(i) /\ Verb(i) \in {"GET", "DELETE"}) => ~Req(i).hasBody

C4_Witness ==
    \E i \in Calls :
        /\ Routed(i)
        /\ Verb(i) = "GET"
        /\ HasKey(args[i], "request")
        /\ ~Req(i).hasBody

(***************************************************************************)
(* C5. For a POST or PATCH command called with a bag: when the bag has a   *)
(* request key the body is the JSON of the value of request, and when it   *)
(* has none the body is the JSON of the bag without the consumed keys.     *)
(***************************************************************************)
C5_BodyIsRequestOrRest ==
    \A i \in Calls :
        (Routed(i) /\ Verb(i) \in {"POST", "PATCH"} /\ Truthy(args[i]))
        => /\ Req(i).hasBody
           /\ IF HasKey(args[i], "request")
              THEN Req(i).body = JSONStringify(Get(args[i].o, "request"))
              ELSE Req(i).body =
                      JSONStringify(Obj(Without(args[i].o, Req(i).consumed)))

C5_Witness ==
    \E i \in Calls :
        /\ Routed(i)
        /\ cmd[i] = "update_account_label"
        /\ args[i] = Obj(<<Prop("accountId", Str("abc123")),
                           Prop("request", Obj(<<Prop("label", Str("L"))>>))>>)
        /\ Req(i).url = "/api/accounts/abc123/label"
        /\ Req(i).body = "{\"label\":\"L\"}"

(***************************************************************************)
(* C6. For a GET or DELETE command, every entry of the bag whose key was   *)
(* not consumed and whose value is neither null nor undefined is in the    *)
(* query string as key=value.                                              *)
(***************************************************************************)
C6_EveryFreeEntryInQuery ==
    \A i \in Calls :
        (Routed(i) /\ Verb(i) \in {"GET", "DELETE"} /\ Truthy(args[i]))
        => \A j \in 1..Len(args[i].o) :
              LET p == args[i].o[j]
              IN  (/\ \A n \in 1..Len(Req(i).consumed) : Req(i).consumed[n] # p.k
                   /\ ~IsNullish(p.v))
                  => \E q \in 1..Len(QueryPairs(Req(i).url)) :
                        QueryPairs(Req(i).url)[q] =
                            Prop(FormEncode(p.k), FormEncode(String(p.v)))

(***************************************************************************)
(* The JSON values of the texts of Texts, written out by hand; a text that *)
(* is not JSON has no entry.                                               *)
(***************************************************************************)
JSONOf ==
       "null" :> Null
    @@ "{}" :> Obj(<<>>)
    @@ "{\"error\":\"forbidden\"}" :> Obj(<<Prop("error", Str("forbidden"))>>)
    @@ "{\"error\":\"\"}" :> Obj(<<Prop("error", Str(""))>>)
    @@ "{\"message\":\"denied\"}" :> Obj(<<Prop("message", Str("denied"))>>)
    @@ "\"done\"" :> Str("done")
    @@ "12" :> Num("12")

\* the body is a JSON object with an error field
DeclaresError(text) ==
    /\ text \in DOMAIN JSONOf
    /\ JSONOf[text].t = "object"
    /\ "error" \in KeySet(JSONOf[text].o)

\* call i was given a response
Answered(i) == resp[i] # NoResponse

(***************************************************************************)
(* C7. A non-2xx response makes the call reject and never resolve; the     *)
(* value is the error field of the JSON body when the body has one, and    *)
(* otherwise a string that holds the status code.                          *)
(***************************************************************************)
C7_NonOkRejectsWithErrorField ==
    \A i \in Calls :
        (Answered(i) /\ ~IsOk(resp[i].status))
        => /\ pc[i] # "resolved"
           /\ pc[i] = "rejected"
              => IF DeclaresError(resp[i].text)
                 THEN result[i] = Get(JSONOf[resp[i].text].o, "error")
                 ELSE /\ result[i].t = "string"
                      /\ Includes(result[i].s, NumToString(resp[i].status))

\* what of C7 holds of the code: the call always rejects, with the error
\* field when the body is a JSON object with a truthy one, with a TypeError
\* when the body is the JSON null, with a ReferenceError for a 401 where no
\* window exists, and else with the status string
C7_AsImplemented ==
    \A i \in Calls :
        (Answered(i) /\ ~IsOk(resp[i].status))
        => /\ pc[i] # "resolved"
           /\ pc[i] = "rejected"
              => IF resp[i].status = 401 /\ ~hasWindow
                 THEN result[i].t = "ReferenceError"
                 ELSE IF resp[i].text = "null"
                 THEN result[i].t = "TypeError"
                 ELSE IF DeclaresError(resp[i].text)
                         /\ Get(JSONOf[resp[i].text].o, "error") # Str("")
                 THEN result[i] = Get(JSONOf[resp[i].text].o, "error")
                 ELSE result[i] =
                        Str("HTTP Error " \o NumToString(resp[i].status))

(***************************************************************************)
(* C8. Where a window exists (the signal is an event of window and the     *)
(* time of the last one a property of it), in browser mode: any two        *)
(* 'abv-unauthorized' events are more than 2000 ms apart, every 401 is at  *)
(* most 2000 ms after an event or is itself the occasion of one, and so    *)
(* two 401s at most 2000 ms apart give one event and two 401s more than    *)
(* 2000 ms apart give two.                                                 *)
(***************************************************************************)
C8_Debounced ==
    (hasWindow /\ ~isTauri)
    => /\ \A a, b \in 1..Len(emitted) :
            a < b => emitted[b] - emitted[a] > DebounceMs
       /\ \A k \in 1..Len(seen401) :
            \E a \in 1..Len(emitted) :
                /\ emitted[a] <= seen401[k]
                /\ seen401[k] - emitted[a] <= DebounceMs
       /\ \A a \in 1..Len(emitted) :
            \E k \in 1..Len(seen401) : seen401[k] = emitted[a]
       /\ Len(seen401) = 2
          => IF seen401[2] - seen401[1] <= DebounceMs
             THEN Len(emitted) = 1
             ELSE Len(emitted) = 2

C8_Witness ==
    /\ hasWindow /\ ~isTauri
    /\ Len(seen401) = 2
    /\ seen401[2] - seen401[1] = DebounceMs
    /\ emitted = <<seen401[1]>>

\* two 401s more than the window apart, two events
C8_WitnessApart ==
    /\ hasWindow /\ ~isTauri
    /\ Len(seen401) = 2
    /\ seen401[2] - seen401[1] = DebounceMs + 1
    /\ emitted = seen401

(***************************************************************************)
(* C9. A 2xx response with status 204, or with an empty body, makes the    *)
(* call resolve with null; it never rejects.                               *)
(***************************************************************************)
C9_NoContentIsNull ==
    \A i \in Calls :
        (Answered(i) /\ IsOk(resp[i].status)
            /\ (resp[i].status = 204 \/ resp[i].text = ""))
        => /\ pc[i] # "rejected"
           /\ pc[i] = "resolved" => result[i] = Null

C9_Witness ==
    \E i \in Calls :
        /\ Answered(i)
        /\ resp[i] = Response(200, "")
        /\ pc[i] = "resolved"
        /\ result[i] = Null

(***************************************************************************)
(* C10. A 2xx response with a body that is not empty makes the call        *)
(* resolve, with the JSON value of the body when the body is JSON and with *)
(* the text of the body, unchanged, when it is not; it never rejects.      *)
(***************************************************************************)
C10_JsonOrRawText ==
    \A i \in Calls :
        (Answered(i) /\ IsOk(resp[i].status) /\ resp[i].status # 204
            /\ resp[i].text # "")
        => /\ pc[i] # "rejected"
           /\ pc[i] = "resolved"
              => IF resp[i].text \in DOMAIN JSONOf
                 THEN result[i] = JSONOf[resp[i].text]
                 ELSE result[i] = Str(resp[i].text)

C10_Witness ==
    \E i \in Calls :
        /\ Answered(i)
        /\ resp[i] = Response(200, "ok")
        /\ pc[i] = "resolved"
        /\ result[i] = Str("ok")

(***************************************************************************)
(* C11. In native mode every call, of a command the table lists or not,    *)
(* hands its own cmd and args to invoke once the import has settled, the   *)
(* caller's object being left as it was passed; it is never rejected with  *)
(* the not-supported error of the browser path, and it hands nothing to    *)
(* fetch and gets no response.                                             *)
(***************************************************************************)
Native(i) == ~Idle(i) /\ isTauri

C11_NativeDelegates ==
    \A i \in Calls :
        Native(i)
        => /\ pc[i] \in {"importing", "invoking", "resolved", "rejected"}
           /\ invoked[i] = IF pc[i] = "importing" THEN <<>>
                           ELSE << <<cmd[i], args[i]>> >>
           /\ callerArgs[i] = args[i]
           /\ result[i] # NotSupported(cmd[i])
           /\ sent[i] = <<>>
           /\ resp[i] = NoResponse

C11_Witness ==
    \E i \in Calls :
        /\ Native(i)
        /\ ~HasMapping(cmd[i])
        /\ invoked[i] = << <<"show_main_window", Account>> >>
        /\ pc[i] = "resolved"

(***************************************************************************)
(* C12. In native mode a settled call resolved with the value invoke       *)
(* resolved with, or rejected with the value invoke rejected with, and     *)
(* invoke was called once.                                                 *)
(***************************************************************************)
C12_NativeOutcomeUnchanged ==
    \A i \in Calls :
        (Native(i) /\ Settled(i))
        => /\ outcome[i].kind = pc[i]
           /\ result[i] = outcome[i].v
           /\ Len(invoked[i]) = 1

C12_Witness ==
    \E i \in Calls :
        /\ Native(i)
        /\ pc[i] = "rejected"
        /\ outcome[i] = Outcome("rejected", Str("native failure"))
        /\ result[i] = Str("native failure")
        /\ Len(invoked[i]) = 1

(***************************************************************************)
(* C13. A browser-mode call of a command of the table hands one request    *)
(* to fetch whether or not a credential is stored.  With no credential (no *)
(* window, no item in the store, or an item that holds no token) the       *)
(* request has neither an Authorization nor an x-api-key header; with one  *)
(* it has both, Authorization being "Bearer " followed by the token and    *)
(* x-api-key the token.                                                    *)
(***************************************************************************)
HasCredential == hasWindow /\ storage.t = "string" /\ storage.s # ""

HeaderNames(req) == KeySet(req.headers)

\* the value of a header of the request ("" for a header it has not)
Header(req, name) ==
    IF name \in HeaderNames(req) THEN Get(req.headers, name) ELSE ""

C13_AuthHeadersFollowCredential ==
    \A i \in Calls :
        Routed(i)
        => /\ Len(sent[i]) = 1
           /\ pc[i] = "fetching"
           /\ IF HasCredential
              THEN /\ {"Authorization", "x-api-key"} \subseteq HeaderNames(Req(i))
                   /\ Header(Req(i), "Authorization") = "Bearer " \o storage.s
                   /\ Header(Req(i), "x-api-key") = storage.s
              ELSE /\ "Authorization" \notin HeaderNames(Req(i))
                   /\ "x-api-key" \notin HeaderNames(Req(i))

C13_Witness ==
    \E i \in Calls :
        /\ Routed(i)
        /\ storage = Str("tok")
        /\ Header(Req(i), "Authorization") = "Bearer tok"
        /\ Header(Req(i), "x-api-key") = "tok"

\* no credential, and the request is sent without the two headers
C13_WitnessAbsent ==
    \E i \in Calls :
        /\ Routed(i)
        /\ hasWindow /\ storage = Null
        /\ Len(sent[i]) = 1
        /\ HeaderNames(Req(i)) = {"Content-Type"}

(***************************************************************************)
(* C14. The request a browser-mode call hands to fetch carries the auth    *)
(* headers of the credential that is in the store at that step, whatever   *)
(* earlier calls found there; and no step of any call, on any path,        *)
(* changes the store: the store changes only in steps in which no call     *)
(* moves.                                                                  *)
(***************************************************************************)
\* req carries the auth headers of the credential in the store, or none
AuthOfStore(req) ==
    IF HasCredential
    THEN /\ {"Authorization", "x-api-key"} \subseteq HeaderNames(req)
         /\ Header(req, "Authorization") = "Bearer " \o storage.s
         /\ Header(req, "x-api-key") = storage.s
    ELSE /\ "Authorization" \notin HeaderNames(req)
         /\ "x-api-key" \notin HeaderNames(req)

C14_CredentialReadFreshNeverWritten ==
    [][/\ \A i \in Calls :
            sent'[i] # sent[i]
            => /\ Len(sent'[i]) = Len(sent[i]) + 1
               /\ AuthOfStore(sent'[i][Len(sent'[i])])
       /\ <<pc, cmd, args, sent, invoked, resp, result>>'
             # <<pc, cmd, args, sent, invoked, resp, result>>
          => storage' = storage]_vars

\* the store changed between two calls, and the second request carries the
\* new token where the first carried none
C14_Witness ==
    /\ Routed(1) /\ Routed(2)
    /\ HeaderNames(Req(1)) = {"Content-Type"}
    /\ storage = Str("tok")
    /\ Header(Req(2), "x-api-key") = "tok"
    /\ Settled(1) /\ Settled(2)

(***************************************************************************)
(* C15. A browser-mode call hands at most one request to fetch.  A call    *)
(* that failed stays failed: a call that got a non-2xx response goes on to *)
(* reject, and a rejected call (unmapped command, network failure,         *)
(* non-2xx response) keeps its rejection value and hands nothing more to   *)
(* fetch.                                                                  *)
(***************************************************************************)
C15_NoRetry ==
    [][\A i \in Calls :
        /\ Len(sent'[i]) <= 1
        /\ pc[i] = "readingError" => pc'[i] \in {"readingError", "rejected"}
        /\ pc[i] = "rejected"
           => /\ pc'[i] = "rejected"
              /\ sent'[i] = sent[i]
              /\ result'[i] = result[i]]_vars

\* call 1 failed at network level and call 2 with a 403, one request each
C15_Witness ==
    /\ ~isTauri
    /\ pc[1] = "rejected" /\ outcome[1] = Outcome("rejected", NetworkError)
    /\ pc[2] = "rejected" /\ resp[2].status = 403
    /\ Len(sent[1]) = 1 /\ Len(sent[2]) = 1

(***************************************************************************)
(* C16. After a browser-mode call has built its request (or refused the    *)
(* command), the caller's argument object has the keys and values it was   *)
(* passed with, in the same order, the keys used as path parameters        *)
(* included.                                                               *)
(***************************************************************************)
C16_CallerArgsUntouched ==
    \A i \in Calls :
        (~Idle(i) /\ ~isTauri) => callerArgs[i] = args[i]

\* accountId went into the path and out of the body, and is still in the
\* caller's object
C16_Witness ==
    \E i \in Calls :
        /\ Routed(i)
        /\ cmd[i] = "warm_up_account"
        /\ Req(i).consumed = <<"accountId">>
        /\ Req(i).url = "/api/accounts/abc123/warmup"
        /\ Req(i).body = "{\"extra\":\"x\"}"
        /\ callerArgs[i] = Obj(<<Prop("accountId", Str("abc123")),
                                 Prop("extra", Str("x"))>>)

(***************************************************************************)
(* C17. An 'abv-unauthorized' event is dispatched, and the time of the     *)
(* last one written, only in a step in which a browser-mode call that is   *)
(* waiting for fetch gets a response of status 401, one event per such     *)
(* step: no step of a native call, no 2xx response, no other non-2xx       *)
(* status, no network failure and no unmapped command dispatches one.      *)
(***************************************************************************)
C17_SignalOnlyOn401 ==
    [][/\ emitted' # emitted
          => /\ ~isTauri
             /\ Len(emitted') = Len(emitted) + 1
             /\ \E i \in Calls :
                    /\ pc[i] = "fetching"
                    /\ HasMapping(cmd[i])
                    /\ resp[i] = NoResponse
                    /\ resp'[i].status = 401
                    /\ \A j \in Calls \ {i} :
                            <<pc[j], resp[j], result[j]>>'
                                = <<pc[j], resp[j], result[j]>>
       /\ lastAuthErrorTime' # lastAuthErrorTime => emitted' # emitted]_vars

\* one call got a 403 and one a 401: only the 401 gave an event
C17_Witness ==
    /\ ~isTauri
    /\ \E i, j \in Calls :
          /\ i # j
          /\ Settled(i) /\ resp[i].status = 403
          /\ Settled(j) /\ resp[j].status = 401
          /\ emitted = <<seen401[1]>>
          /\ Len(seen401) = 1

(***************************************************************************)
(* C18. A browser-mode call whose fetch rejected (no response) is rejected *)
(* with the value fetch rejected with.                                     *)
(***************************************************************************)
C18_NetworkErrorUnchanged ==
    \A i \in Calls :
        (~isTauri /\ outcome[i].kind = "rejected")
        => /\ pc[i] = "rejected"
           /\ result[i] = outcome[i].v
           /\ resp[i] = NoResponse

C18_Witness ==
    \E i \in Calls :
        /\ Routed(i)
        /\ outcome[i] = Outcome("rejected", Err("TypeError", "Load failed"))
        /\ pc[i] = "rejected"
        /\ result[i] = Err("TypeError", "Load failed")

(***************************************************************************)
(* C19. Where a window exists, in browser mode, with several calls in      *)
(* flight: when all the 401 responses received so far came within one      *)
(* window of 2000 ms, in whatever order the calls were answered, exactly   *)
(* one event was dispatched, at the first of them; and no two events were  *)
(* dispatched at the same instant (no two calls passed the test of line    *)
(* 153 on the same time stamp).                                            *)
(***************************************************************************)
C19_OneEventPerWindow ==
    (hasWindow /\ ~isTauri)
    => /\ (/\ seen401 # <<>>
           /\ seen401[Len(seen401)] - seen401[1] <= DebounceMs)
          => emitted = <<seen401[1]>>
       /\ \A a, b \in 1..Len(emitted) : a # b => emitted[a] # emitted[b]
       /\ lastAuthErrorTime = IF emitted = <<>> THEN Unset
                              ELSE emitted[Len(emitted)]

\* two calls in flight at once, both answered with a 401 at the same
\* instant: one event
C19_Witness ==
    /\ hasWindow /\ ~isTauri
    /\ pc[1] = "readingError" /\ pc[2] = "readingError"
    /\ resp[1].status = 401 /\ resp[2].status = 401
    /\ seen401 = <<now, now>>
    /\ emitted = <<now>>

(***************************************************************************)
(* C20. With several calls in flight, in every step: at most one call      *)
(* moves, and the others keep their state; the request a call hands to     *)
(* fetch is the one built from its own cmd, its own args and the           *)
(* credential in the store at that step; and a call that settles does so   *)
(* as its own response (or what its own fetch or invoke settled with, or   *)
(* its own unmapped cmd) and the environment give, whatever the other      *)
(* calls were given and in whatever order they were answered.              *)
(***************************************************************************)
\* how a browser-mode call that was given response r settles
SettlesAs(r) ==
    IF IsOk(r.status)
    THEN <<"resolved", IF r.status = 204 THEN Null ELSE Parsed(r.text)>>
    ELSE <<"rejected",
           IF r.status = 401 /\ ~hasWindow
           THEN Err("ReferenceError", "window is not defined")
           ELSE Thrown(ErrorData(r.text), r.status)>>

\* all that the model holds of call i
CallState(i) ==
    <<pc[i], cmd[i], args[i], sent[i], invoked[i], resp[i], result[i],
      outcome[i], callerArgs[i]>>

C20_CallsIndependent ==
    [][\A i \in Calls :
        /\ CallState(i)' # CallState(i)
           => \A j \in Calls \ {i} : CallState(j)' = CallState(j)
        /\ sent'[i] # sent[i]
           => sent'[i] = <<BuildRequest(cmd'[i], args'[i],
                                       ReadApiKey(hasWindow, storage))>>
        /\ (~Settled(i) /\ Settled(i)')
           => <<pc'[i], result'[i]>> =
                 IF resp'[i] # NoResponse THEN SettlesAs(resp'[i])
                 ELSE IF outcome'[i] # NoOutcome
                 THEN <<outcome'[i].kind, outcome'[i].v>>
                 ELSE <<"rejected", NotSupported(cmd'[i])>>
        /\ Settled(i) => CallState(i)' = CallState(i)]_vars

\* call 2, dispatched after call 1, was answered first, with a 403; call 1
\* is still waiting
C20_Witness ==
    /\ Routed(1) /\ Routed(2)
    /\ pc[1] = "fetching"
    /\ pc[2] = "rejected"
    /\ resp[2] = Response(403, "ok")
    /\ result[2] = Str("HTTP Error 403")

\* both calls settled, call 1 on a 401 and call 2 on a 403, each with the
\* value of its own response
C20_WitnessBoth ==
    /\ Routed(1) /\ Routed(2)
    /\ hasWindow
    /\ resp[1].status = 401 /\ result[1] = Str("forbidden")
    /\ resp[2].status = 403 /\ result[2] = Str("HTTP Error 403")

(***************************************************************************)
(* C21. A call moves along the stated machine.  In browser mode the        *)
(* request is handed to fetch in the step that leaves the start, for a     *)
(* command the table lists, with its url, its query or body and its        *)
(* headers in place, and is not changed afterwards; in native mode no      *)
(* step of the browser path occurs; the places a call goes through follow  *)
(* the arrows of the machine, and a call that resolved or rejected stays   *)
(* as it is.                                                               *)
(***************************************************************************)
\* the arrows of the machine, between the awaits of request
Arrows ==
    {<<"idle", "importing">>, <<"importing", "invoking">>,
     <<"invoking", "resolved">>, <<"invoking", "rejected">>,
     <<"idle", "rejected">>, <<"idle", "fetching">>,
     <<"fetching", "rejected">>, <<"fetching", "resolved">>,
     <<"fetching", "readingError">>, <<"fetching", "readingText">>,
     <<"readingError", "rejected">>, <<"readingText", "resolved">>}

NativePlaces == {"idle", "importing", "invoking", "resolved", "rejected"}

BrowserPlaces ==
    {"idle", "fetching", "readingError", "readingText", "resolved",
     "rejected"}

C21_StateMachine ==
    [][\A i \in Calls :
        /\ pc'[i] # pc[i] => <<pc[i], pc'[i]>> \in Arrows
        /\ pc'[i] \in (IF isTauri THEN NativePlaces ELSE BrowserPlaces)
        /\ isTauri => sent'[i] = <<>> /\ resp'[i] = NoResponse
        /\ sent'[i] # sent[i]
           => /\ pc[i] = "idle" /\ pc'[i] = "fetching"
              /\ HasMapping(cmd'[i])
              /\ Len(sent'[i]) = 1
              /\ sent'[i][1].method = COMMAND_MAPPING[cmd'[i]].method
              /\ PathOf(sent'[i][1].url) # ""
              /\ "Content-Type" \in HeaderNames(sent'[i][1])
              /\ sent'[i][1].hasBody
                 => sent'[i][1].method \in {"POST", "PATCH"}
        /\ pc[i] = "fetching" <=> (sent[i] # <<>> /\ resp[i] = NoResponse
                                   /\ ~Settled(i))
        /\ Settled(i) => CallState(i)' = CallState(i)]_vars

\* a browser-mode call went start, send, normalise, done
C21_Witness ==
    \E i \in Calls :
        /\ Routed(i)
        /\ pc[i] = "resolved"
        /\ Len(sent[i]) = 1
        /\ resp[i] = Response(200, "{}")
        /\ result[i] = Obj(<<>>)

(***************************************************************************)
(* C22. Where invoke, fetch and the reads of the body settle in the end,   *)
(* every call that was started resolves or rejects in the end, whatever    *)
(* the other calls do (started or not, settled or not) and whatever the    *)
(* state of the debounce.                                                  *)
(***************************************************************************)
C22_EveryCallSettles == \A i \in Calls : ~Idle(i) ~> Settled(i)

\* a 401 that the debounce kept silent, and both calls settled
C22_Witness ==
    /\ \A i \in Calls : Settled(i)
    /\ Len(seen401) = 2
    /\ Len(emitted) = 1

(***************************************************************************)
(* C23. A key of the bag is used as a path parameter only if the template  *)
(* has a placeholder of exactly that name.  A key that names no            *)
(* placeholder is not consumed; when no key of the bag names one the path  *)
(* is the template; and the key goes to the body (POST, no request         *)
(* wrapper, value not undefined) or to the query string (GET and DELETE,   *)
(* value neither null nor undefined nor a piece of the template).          *)
(***************************************************************************)
NamesPlaceholder(key, template) == key \in PlaceholderNames(template)

C23_OnlyExactPlaceholder ==
    \A i \in Calls :
        (Routed(i) /\ Truthy(args[i]))
        => /\ \A n \in 1..Len(Req(i).consumed) :
                 NamesPlaceholder(Req(i).consumed[n], Template(i))
           /\ (\A j \in 1..Len(args[i].o) :
                    ~NamesPlaceholder(args[i].o[j].k, Template(i)))
              => PathOf(Req(i).url) = Template(i)
           /\ \A j \in 1..Len(args[i].o) :
                 LET p == args[i].o[j]
                 IN  ~NamesPlaceholder(p.k, Template(i))
                     => /\ (/\ Verb(i) = "POST"
                            /\ ~HasKey(args[i], "request")
                            /\ p.v # Undefined)
                           => p.k \in BodyFields(Req(i))
                        /\ (/\ Verb(i) \in {"GET", "DELETE"}
                            /\ ~IsNullish(p.v)
                            /\ ~SkipAsPath(Template(i), p.v))
                           => p.k \in QueryNames(Req(i).url)

\* key is the beginning of the name of a placeholder of the template, and
\* not the whole of it
BeginsPlaceholder(key, template) ==
    \E name \in PlaceholderNames(template) :
        /\ name # key
        /\ Len(key) <= Len(name)
        /\ SubSeq(name, 1, Len(key)) = key

\* what of C23 holds of the code: the same, for the bags none of whose keys
\* begins the name of a placeholder
C23_ExceptKeysBeginningAPlaceholder ==
    \A i \in Calls :
        (/\ Routed(i) /\ Truthy(args[i])
         /\ \A j \in 1..Len(args[i].o) :
                ~BeginsPlaceholder(args[i].o[j].k, Template(i)))
        => /\ \A n \in 1..Len(Req(i).consumed) :
                 NamesPlaceholder(Req(i).consumed[n], Template(i))
           /\ (\A j \in 1..Len(args[i].o) :
                    ~NamesPlaceholder(args[i].o[j].k, Template(i)))
              => PathOf(Req(i).url) = Template(i)
           /\ \A j \in 1..Len(args[i].o) :
                 LET p == args[i].o[j]
                 IN  ~NamesPlaceholder(p.k, Template(i))
                     => /\ (/\ Verb(i) = "POST"
                            /\ ~HasKey(args[i], "request")
                            /\ p.v # Undefined)
                           => p.k \in BodyFields(Req(i))
                        /\ (/\ Verb(i) \in {"GET", "DELETE"}
                            /\ ~IsNullish(p.v)
                            /\ ~SkipAsPath(Template(i), p.v))
                           => p.k \in QueryNames(Req(i).url)

(***************************************************************************)
(* C24. For GET and DELETE in browser mode the parameters of the query     *)
(* string stand in the order of the keys of the argument bag, each is an   *)
(* entry of the bag with its value, and no entry whose value is null or    *)
(* undefined is among them.                                                *)
(***************************************************************************)
\* the place of the entry named key in the bag (0: none)
PlaceOf(bag, key) ==
    IF \E j \in 1..Len(bag.o) : FormEncode(bag.o[j].k) = key
    THEN CHOOSE j \in 1..Len(bag.o) : FormEncode(bag.o[j].k) = key
    ELSE 0

C24_QueryInKeyOrderWithoutNullish ==
    \A i \in Calls :
        (Routed(i) /\ Verb(i) \in {"GET", "DELETE"} /\ Truthy(args[i]))
        => LET q == QueryPairs(Req(i).url)
           IN  /\ \A a \in 1..Len(q) :
                     LET j == PlaceOf(args[i], q[a].k)
                     IN  /\ j > 0
                         /\ ~IsNullish(args[i].o[j].v)
                         /\ q[a].v = FormEncode(String(args[i].o[j].v))
               /\ \A a, b \in 1..Len(q) :
                     a < b => PlaceOf(args[i], q[a].k) < PlaceOf(args[i], q[b].k)
               /\ \A j \in 1..Len(args[i].o) :
                     IsNullish(args[i].o[j].v)
                     => FormEncode(args[i].o[j].k) \notin QueryNames(Req(i).url)

\* two parameters appended in the order of the bag, which is not the
\* alphabetical one
C24_Witness ==
    \E i \in Calls :
        /\ Routed(i) /\ Verb(i) = "GET"
        /\ Len(args[i].o) = 2
        /\ args[i].o[1].k = "versionId" /\ args[i].o[2].k = "extra"
        /\ QueryPairs(Req(i).url)
             = <<Prop("versionId", "v%3A1"), Prop("extra", "x")>>

\* a bag with a null entry before an appended one
C24_WitnessNullish ==
    \E i \in Calls :
        /\ Routed(i) /\ Verb(i) = "DELETE"
        /\ Len(args[i].o) = 2
        /\ args[i].o[1] = Prop("extra", Null)
        /\ QueryPairs(Req(i).url) = <<Prop("versionId", "v%3A1")>>

(***************************************************************************)
(* C25. The route table is the same in every reachable state: no dispatch, *)
(* successful or failed, adds, removes or changes an entry.  No two rows   *)
(* of it have the same command name, and the verb of every entry is one of *)
(* GET, POST, DELETE and PATCH.                                            *)
(***************************************************************************)
C25_RouteTableFixed ==
    /\ table = COMMAND_MAPPING
    /\ Cardinality(DOMAIN table) = TableRows
    /\ \A c \in DOMAIN table :
          /\ DOMAIN table[c] = {"url", "method"}
          /\ table[c].method \in Verbs

\* after a refused dispatch and one that resolved
C25_Witness ==
    /\ \E i \in Calls :
          /\ pc[i] = "rejected" /\ cmd[i] \notin DOMAIN table
          /\ result[i] = NotSupported(cmd[i])
    /\ \E i \in Calls :
          /\ pc[i] = "resolved" /\ cmd[i] \in DOMAIN table
    /\ table = COMMAND_MAPPING

(***************************************************************************)
(* C26. The transport verdict is computed once: no step changes it,        *)
(* whatever the host does to its globals afterwards, so every call of the  *)
(* process takes the native path or every call takes the browser path.     *)
(* Without a global window the verdict is browser mode, and a call there   *)
(* takes the browser path.                                                 *)
(***************************************************************************)
\* the call went to line 83 (the import and invoke) and not to line 92
TookNative(i) == pc[i] = "importing" \/ invoked[i] # <<>>

\* the call went to line 92 (the table and fetch)
TookBrowser(i) ==
    \/ sent[i] # <<>>
    \/ pc[i] = "rejected" /\ invoked[i] = <<>> /\ result[i] = NotSupported(cmd[i])

C26_VerdictComputedOnce ==
    [][/\ isTauri' = isTauri
       /\ ~hasWindow => ~isTauri
       /\ \A i \in Calls :
             ~Idle(i)' => /\ TookNative(i)' <=> isTauri
                          /\ TookBrowser(i)' <=> ~isTauri
                          /\ ~hasWindow => TookBrowser(i)'
       /\ \A i, j \in Calls :
             (~Idle(i)' /\ ~Idle(j)') => (TookNative(i)' <=> TookNative(j)')]_vars

\* a page that started as a browser and was given the host's globals
\* afterwards: both calls went to fetch
C26_Witness ==
    /\ hasWindow /\ ~isTauri
    /\ Probe(hasWindow, globals.internals, globals.tauri)
    /\ \A i \in Calls : sent[i] # <<>> /\ invoked[i] = <<>>
    /\ pc[MaxCalls] = "fetching"

\* a native webview whose globals were removed afterwards: both calls went
\* to invoke
C26_WitnessNative ==
    /\ isTauri
    /\ ~Probe(hasWindow, globals.internals, globals.tauri)
    /\ \A i \in Calls : invoked[i] # <<>> /\ sent[i] = <<>>

\* no window: the verdict is browser mode and the call went to fetch
C26_WitnessNoWindow ==
    /\ ~hasWindow /\ ~isTauri
    /\ \E i \in Calls : pc[i] = "resolved" /\ sent[i] # <<>>

(***************************************************************************)
(* C27. The time of the last emission is written only by a step that       *)
(* emits the signal, and then it is the time of that emission.  A 401      *)
(* whose signal the debounce suppresses, a response that is not a 401, a   *)
(* success and a network failure leave it as it was, so it is the time of  *)
(* the last emission and not of the last 401.                              *)
(***************************************************************************)
C27_StampedOnlyOnEmission ==
    [][/\ lastAuthErrorTime' # lastAuthErrorTime
          => /\ emitted' = Append(emitted, now)
             /\ seen401' = Append(seen401, now)
             /\ lastAuthErrorTime' = now
       /\ emitted' # emitted
          => /\ emitted' = Append(emitted, now)
             /\ lastAuthErrorTime' = now
       /\ (seen401' # seen401 /\ emitted' = emitted)
          => lastAuthErrorTime' = lastAuthErrorTime
       /\ lastAuthErrorTime' = IF emitted' = <<>> THEN Unset
                               ELSE emitted'[Len(emitted')]]_vars

\* a 401 that emitted, a later one that was suppressed, both calls
\* rejected: the time is still that of the emission
C27_Witness ==
    /\ hasWindow /\ ~isTauri
    /\ Len(seen401) = 2 /\ seen401[1] < seen401[2]
    /\ emitted = <<seen401[1]>>
    /\ lastAuthErrorTime = seen401[1]
    /\ \A i \in Calls : pc[i] = "rejected" /\ resp[i].status = 401

(***************************************************************************)
(* C28. In browser mode with a window, a 401 is not dropped by the         *)
(* debounce when no emission is recent: the first 401 of the process (no   *)
(* time written yet, the clock above 2000 ms) emits the signal, and so     *)
(* does every 401 that arrives more than 2000 ms after the last emission.  *)
(***************************************************************************)
C28_NoRecentEmissionEmits ==
    [][(hasWindow /\ ~isTauri /\ seen401' # seen401)
       => /\ seen401' = Append(seen401, now)
          /\ (lastAuthErrorTime = Unset /\ emitted = <<>> /\ now > DebounceMs)
             => emitted' = Append(emitted, now)
          /\ (/\ emitted # <<>>
              /\ now - emitted[Len(emitted)] > DebounceMs)
             => emitted' = Append(emitted, now)]_vars

\* the first 401, at the start of the process, and one 2001 ms later:
\* both emitted
C28_Witness ==
    /\ hasWindow /\ ~isTauri
    /\ seen401 = <<StartTime, StartTime + DebounceMs + 1>>
    /\ emitted = seen401
    /\ lastAuthErrorTime = StartTime + DebounceMs + 1

(***************************************************************************)
(* C29. In browser mode, when a call is answered with a 401: the signal,   *)
(* if this 401 is the occasion of one, is emitted before the call rejects  *)
(* (while the call still waits for the body and has no result yet, the     *)
(* emission has been made and its time written); and the call rejects,     *)
(* whether the signal was emitted or suppressed, with the error field of   *)
(* the body when the body has one and else with the string of the status   *)
(* code.                                                                   *)
(***************************************************************************)
\* the value the claim gives for a 401 with this body
Declared(text) ==
    IF DeclaresError(text) THEN Get(JSONOf[text].o, "error")
    ELSE Str("HTTP Error 401")

C29_EmitsThenRejectsAlike ==
    \A i \in Calls :
        (~isTauri /\ Answered(i) /\ resp[i].status = 401)
        => /\ pc[i] \in {"readingError", "rejected"}
           /\ pc[i] = "readingError"
              => /\ result[i] = Undefined
                 /\ emitted # <<>>
                 /\ emitted[Len(emitted)] = lastAuthErrorTime
           /\ pc[i] = "rejected" => result[i] = Declared(resp[i].text)

\* what of C29 holds of the code.  Where a window exists no step both
\* emits and settles a call, the step that rejects a call emits nothing,
\* and the value of the rejection is a function of the body alone: the
\* error field when the body is a JSON object that has a truthy one, a
\* TypeError when the body is the JSON null, else the status string.
\* Where no window exists nothing is emitted and the value is the
\* ReferenceError of line 152.
C29_AsImplemented ==
    [][\A i \in Calls :
         (~isTauri /\ resp'[i] # NoResponse /\ resp'[i].status = 401)
         => /\ emitted' # emitted
               => hasWindow /\ \A j \in Calls : ~Settled(j)' \/ Settled(j)
            /\ (pc'[i] = "rejected" /\ pc[i] # "rejected")
               => /\ emitted' = emitted
                  /\ result'[i] =
                        IF ~hasWindow
                        THEN Err("ReferenceError", "window is not defined")
                        ELSE IF resp[i].text = "null"
                        THEN ThrownFor[resp[i]]
                        ELSE IF DeclaresError(resp[i].text)
                                /\ Get(JSONOf[resp[i].text].o, "error") # Str("")
                        THEN Get(JSONOf[resp[i].text].o, "error")
                        ELSE Str("HTTP Error 401")]_vars

(***************************************************************************)
(* C30. Path parameters are not validated.  When the bag has no key for a  *)
(* placeholder of the template, or no bag is given, the call is not        *)
(* rejected before the network call: one request is handed to fetch, with  *)
(* the verb of the table, and the segment :name stands in its path as the  *)
(* template has it.                                                        *)
(***************************************************************************)
\* the segments of the path of a url
Segments(url) ==
    LET segs == Split(PathOf(url), "/")
    IN  {segs[n] : n \in 1..Len(segs)}

\* the placeholders of the template of call i that its bag has no key for
Missing(i) ==
    {name \in PlaceholderNames(Template(i)) : ~HasKey(args[i], name)}

C30_MissingParameterLeftLiteral ==
    \A i \in Calls :
        (Routed(i) /\ Missing(i) # {})
        => /\ Len(sent[i]) = 1
           /\ pc[i] = "fetching"
           /\ Req(i).method = Verb(i)
           /\ \A name \in Missing(i) : (":" \o name) \in Segments(Req(i).url)

\* what of C30 holds of the code: the same, for the bags none of whose
\* keys begins the name of a placeholder
C30_ExceptKeysBeginningAPlaceholder ==
    \A i \in Calls :
        (/\ Routed(i) /\ Missing(i) # {}
         /\ \A j \in 1..Len(args[i].o) :
                ~BeginsPlaceholder(args[i].o[j].k, Template(i)))
        => /\ Len(sent[i]) = 1
           /\ pc[i] = "fetching"
           /\ Req(i).method = Verb(i)
           /\ \A name \in Missing(i) : (":" \o name) \in Segments(Req(i).url)

\* a call without a bag for a template with a placeholder: the request
\* goes out with the placeholder in its path
C30_ReachedWithoutBag ==
    \E i \in Calls :
        /\ Routed(i) /\ args[i] = Undefined
        /\ cmd[i] = "delete_account"
        /\ pc[i] = "fetching"
        /\ Req(i).url = "/api/accounts/:accountId"
====
